---------------------------- MODULE Spec2Model ----------------------------
(***************************************************************************)
(* A model of go-buildtags (src/main.go): the file-name tag extractor      *)
(* parsename, the header scanner parsetags with the tag walker addtags,    *)
(* the known-tag registry, and the run loop that accumulates, categorizes  *)
(* and prints the tags.                                                    *)
(*                                                                         *)
(* A Go string is modelled as a sequence of one-character strings, so that *)
(* strings.Index, strings.Split, strconv.Itoa and the byte order used by   *)
(* sort.Strings are computed as the code computes them.  Positions keep    *)
(* Go's 0-based convention (-1 for "not found"); only the indexing of a    *)
(* TLA+ sequence is 1-based, so Go's s[i] is written s[i+1].               *)
(***************************************************************************)
EXTENDS Integers, Sequences, FiniteSets

(***************************************************************************)
(* Strings                                                                 *)
(***************************************************************************)

\* The characters the model uses, in increasing byte (ASCII) order.
byteOrder ==
    << "\t", "\n", " ", "!", "&", "(", ")", "+", ",", ".", "/",
       "0", "1", "2", "3", "4", "5", "6", "7", "8", "9", ":",
       "_",
       "a", "b", "c", "d", "e", "f", "g", "h", "i", "j", "k", "l", "m",
       "n", "o", "p", "q", "r", "s", "t", "u", "v", "w", "x", "y", "z",
       "|" >>

\* The decimal digits, by value.
Digits == << "0", "1", "2", "3", "4", "5", "6", "7", "8", "9" >>

\* unicode.IsDigit and unicode.IsLetter on the characters of the model.
IsDigit(c) == \E k \in DOMAIN Digits : Digits[k] = c
IsLetter(c) ==
    c \in { "a", "b", "c", "d", "e", "f", "g", "h", "i", "j", "k", "l", "m",
            "n", "o", "p", "q", "r", "s", "t", "u", "v", "w", "x", "y", "z" }

\* The rank of a character in byte order.
Ord(c) == CHOOSE i \in DOMAIN byteOrder : byteOrder[i] = c

\* Go's s < t on strings: bytewise lexicographic order.
RECURSIVE StrLess(_, _)
StrLess(s, t) ==
    IF t = <<>> THEN FALSE
    ELSE IF s = <<>> THEN TRUE
    ELSE IF Head(s) = Head(t) THEN StrLess(Tail(s), Tail(t))
    ELSE Ord(Head(s)) < Ord(Head(t))

\* strings.Index(s, c) for a one-byte separator c: the 0-based position of
\* the first c in s, or -1.
Index(s, c) ==
    IF \E i \in 1..Len(s) : s[i] = c
    THEN (CHOOSE i \in 1..Len(s) : s[i] = c /\ \A j \in 1..(i-1) : s[j] # c) - 1
    ELSE -1

\* strings.LastIndex(s, c).
LastIndex(s, c) ==
    IF \E i \in 1..Len(s) : s[i] = c
    THEN (CHOOSE i \in 1..Len(s) : s[i] = c /\ \A j \in (i+1)..Len(s) : s[j] # c) - 1
    ELSE -1

\* Go's s[from:] and s[:to] (0-based, half-open).
SliceFrom(s, from) == SubSeq(s, from + 1, Len(s))
SliceTo(s, to) == SubSeq(s, 1, to)

\* strings.HasPrefix(s, p).
HasPrefix(s, p) == Len(s) >= Len(p) /\ SubSeq(s, 1, Len(p)) = p

\* strings.Split(s, c) for a one-byte separator c: the pieces between the
\* separators; k separators give k+1 pieces (possibly empty).
RECURSIVE Split(_, _)
Split(s, c) ==
    LET i == Index(s, c)
    IN  IF i < 0 THEN << s >>
        ELSE << SliceTo(s, i) >> \o Split(SliceFrom(s, i + 1), c)

(***************************************************************************)
(* The known-tag registry                                                  *)
(***************************************************************************)

knownOS ==
    { <<"a","i","x">>, <<"a","n","d","r","o","i","d">>, <<"d","a","r","w","i","n">>, <<"d","r","a","g","o","n","f","l","y">>, <<"f","r","e","e","b","s","d">>, <<"h","u","r","d">>,
      <<"i","l","l","u","m","o","s">>, <<"i","o","s">>, <<"j","s">>, <<"l","i","n","u","x">>, <<"n","a","c","l">>, <<"n","e","t","b","s","d">>,
      <<"o","p","e","n","b","s","d">>, <<"p","l","a","n","9">>, <<"s","o","l","a","r","i","s">>, <<"w","i","n","d","o","w","s">>, <<"z","o","s">> }

knownArch ==
    { <<"3","8","6">>, <<"a","m","d","6","4">>, <<"a","m","d","6","4","p","3","2">>, <<"a","r","m">>, <<"a","r","m","b","e">>, <<"a","r","m","6","4">>,
      <<"a","r","m","6","4","b","e">>, <<"m","i","p","s">>, <<"m","i","p","s","l","e">>, <<"m","i","p","s","6","4">>, <<"m","i","p","s","6","4","l","e">>,
      <<"m","i","p","s","6","4","p","3","2">>, <<"m","i","p","s","6","4","p","3","2","l","e">>, <<"p","p","c">>, <<"p","p","c","6","4">>, <<"p","p","c","6","4","l","e">>,
      <<"r","i","s","c","v">>, <<"r","i","s","c","v","6","4">>, <<"s","3","9","0">>, <<"s","3","9","0","x">>, <<"s","p","a","r","c">>, <<"s","p","a","r","c","6","4">>,
      <<"w","a","s","m">> }

\* The exclusive upper limit of the loop that generates the release tags.
ReleaseLimit == 256

\* strconv.Itoa(i) for i >= 0: the decimal digits, most significant first.
RECURSIVE Itoa(_)
Itoa(i) ==
    LET digit == << Digits[(i % 10) + 1] >>
    IN  IF i < 10 THEN digit ELSE Itoa(i \div 10) \o digit

\* knownReleaseTag had the loop of init() started at 0.
knownReleaseTagFromZero ==
    { <<"g","o","1">> } \cup { <<"g","o","1",".">> \o Itoa(i) : i \in 0..(ReleaseLimit - 1) }

\* knownReleaseTag after init() has run.
knownReleaseTag ==
    { <<"g","o","1">> } \cup { <<"g","o","1",".">> \o Itoa(i) : i \in 1..(ReleaseLimit - 1) }

knownSpecialTag == { <<"c","g","o">>, <<"g","c">>, <<"g","c","c","g","o">> }

(***************************************************************************)
(* parsename                                                               *)
(***************************************************************************)

\* The zero value of [2]string.
NoTags == << <<>>, <<>> >>

\* parsename with the pair accepted in either order.
parsenameAnyOrder(name) ==
    LET dot  == Index(name, ".")
        base == IF dot # -1 THEN SliceTo(name, dot) ELSE name
        i    == Index(base, "_")
        l0   == Split(SliceFrom(base, i + 1), "_")
        n0   == Len(l0)
        l    == IF n0 > 0 /\ l0[n0] = <<"t","e","s","t">> THEN SubSeq(l0, 1, n0 - 1) ELSE l0
        n    == Len(l)
    IN  IF i < 0 THEN NoTags
        ELSE IF n >= 2 /\ l[n-1] \in knownOS /\ l[n] \in knownArch
             THEN << l[n], l[n-1] >>
        ELSE IF n >= 2 /\ l[n-1] \in knownArch /\ l[n] \in knownOS
             THEN << l[n-1], l[n] >>
        ELSE IF n >= 1 /\ (l[n] \in knownOS \/ l[n] \in knownArch)
             THEN << l[n], <<>> >>
        ELSE NoTags

\* parsename without the removal of a trailing "test" component.
parsenameKeepTest(name) ==
    LET dot  == Index(name, ".")
        base == IF dot # -1 THEN SliceTo(name, dot) ELSE name
        i    == Index(base, "_")
        l    == Split(SliceFrom(base, i + 1), "_")
        n    == Len(l)
    IN  IF i < 0 THEN NoTags
        ELSE IF n >= 2 /\ l[n-1] \in knownOS /\ l[n] \in knownArch
             THEN << l[n], l[n-1] >>
        ELSE IF n >= 1 /\ (l[n] \in knownOS \/ l[n] \in knownArch)
             THEN << l[n], <<>> >>
        ELSE NoTags

\* parsename(name): the tags specified in the Go file name, as [2]string.
parsename(name) ==
    LET dot  == Index(name, ".")
        base == IF dot # -1 THEN SliceTo(name, dot) ELSE name
        i    == Index(base, "_")
        l0   == Split(SliceFrom(base, i + 1), "_")
        n0   == Len(l0)
        l    == IF n0 > 0 /\ l0[n0] = <<"t","e","s","t">> THEN SubSeq(l0, 1, n0 - 1) ELSE l0
        n    == Len(l)
    IN  IF i < 0 THEN NoTags
        ELSE IF n >= 2 /\ l[n-1] \in knownOS /\ l[n] \in knownArch
             THEN << l[n], l[n-1] >>
        ELSE IF n >= 1 /\ (l[n] \in knownOS \/ l[n] \in knownArch)
             THEN << l[n], <<>> >>
        ELSE NoTags

(***************************************************************************)
(* go/build/constraint, as used by isBuildLine and parsetags               *)
(***************************************************************************)

\* The four node kinds of constraint.Expr.
TagExpr(t)    == [kind |-> "Tag", tag |-> t]
NotExpr(x)    == [kind |-> "Not", x |-> x]
AndExpr(x, y) == [kind |-> "And", x |-> x, y |-> y]
OrExpr(x, y)  == [kind |-> "Or", x |-> x, y |-> y]

\* The characters strings.TrimSpace and strings.Fields treat as space.
IsSpace(c) == c \in { " ", "\t", "\n" }

RECURSIVE TrimLeft(_)
TrimLeft(s) == IF s # <<>> /\ IsSpace(Head(s)) THEN TrimLeft(Tail(s)) ELSE s

RECURSIVE TrimRight(_)
TrimRight(s) ==
    IF s # <<>> /\ IsSpace(s[Len(s)]) THEN TrimRight(SubSeq(s, 1, Len(s) - 1))
    ELSE s

\* strings.TrimSpace(s).
TrimSpace(s) == TrimRight(TrimLeft(s))

\* strings.Fields(s): the maximal runs of non-space characters.
RECURSIVE Fields(_)
Fields(s) ==
    LET t == TrimLeft(s)
        n == IF \E i \in 1..Len(t) : IsSpace(t[i])
             THEN (CHOOSE i \in 1..Len(t) :
                      IsSpace(t[i]) /\ \A j \in 1..(i-1) : ~IsSpace(t[j])) - 1
             ELSE Len(t)
    IN  IF t = <<>> THEN <<>>
        ELSE << SliceTo(t, n) >> \o Fields(SliceFrom(t, n))

\* constraint.splitGoBuild(line) for a line without a newline.
splitGoBuild(line) ==
    LET l1   == SliceFrom(TrimSpace(line), Len(<<"/","/","g","o",":","b","u","i","l","d">>))
        trim == TrimSpace(l1)
    IN  IF ~HasPrefix(line, <<"/","/","g","o",":","b","u","i","l","d">>) THEN [ok |-> FALSE, expr |-> <<>>]
        ELSE IF Len(l1) = Len(trim) /\ l1 # <<>> THEN [ok |-> FALSE, expr |-> <<>>]
        ELSE [ok |-> TRUE, expr |-> trim]

\* constraint.splitPlusBuild(line) for a line without a newline.
splitPlusBuild(line) ==
    LET l1   == TrimSpace(SliceFrom(line, Len(<<"/","/">>)))
        l2   == SliceFrom(l1, Len(<<"+","b","u","i","l","d">>))
        trim == TrimSpace(l2)
    IN  IF ~HasPrefix(line, <<"/","/">>) THEN [ok |-> FALSE, expr |-> <<>>]
        ELSE IF ~HasPrefix(l1, <<"+","b","u","i","l","d">>) THEN [ok |-> FALSE, expr |-> <<>>]
        ELSE IF Len(l2) = Len(trim) /\ l2 # <<>> THEN [ok |-> FALSE, expr |-> <<>>]
        ELSE [ok |-> TRUE, expr |-> trim]

IsGoBuild(line) == splitGoBuild(line).ok
IsPlusBuild(line) == splitPlusBuild(line).ok

\* The characters a tag may hold.
IsTagChar(c) == IsLetter(c) \/ IsDigit(c) \/ c = "_" \/ c = "."

\* constraint.isValidTag(word).
isValidTag(word) == word # <<>> /\ \A k \in 1..Len(word) : IsTagChar(word[k])

\* exprParser: the text s, the 0-based position i, the current token, and
\* err for a SyntaxError panic in flight.
NewParser(s) == [s |-> s, i |-> 0, tok |-> <<>>, isTag |-> FALSE, err |-> FALSE]
Panic(p) == [p EXCEPT !.err = TRUE]

\* The number of tag characters of s from 0-based position i on.
RECURSIVE TagLen(_, _)
TagLen(s, i) ==
    IF i < Len(s) /\ IsTagChar(s[i+1]) THEN 1 + TagLen(s, i + 1) ELSE 0

\* The first 0-based position from i on that holds no blank or tab.
RECURSIVE SkipBlank(_, _)
SkipBlank(s, i) ==
    IF i < Len(s) /\ s[i+1] \in { " ", "\t" } THEN SkipBlank(s, i + 1) ELSE i

\* exprParser.lex: the next token into p.tok.
lex(p) ==
    LET i == SkipBlank(p.s, p.i)
    IN  IF i >= Len(p.s)
        THEN [p EXCEPT !.i = i, !.tok = <<>>, !.isTag = FALSE]
        ELSE LET c == p.s[i+1]
                 n == TagLen(p.s, i)
             IN  IF c \in { "(", ")", "!" }
                 THEN [p EXCEPT !.i = i + 1, !.tok = << c >>, !.isTag = FALSE]
                 ELSE IF c \in { "&", "|" }
                 THEN IF i + 1 >= Len(p.s) \/ p.s[i+2] # c
                      THEN Panic([p EXCEPT !.isTag = FALSE])
                      ELSE [p EXCEPT !.i = i + 2, !.tok = << c, c >>,
                                     !.isTag = FALSE]
                 ELSE IF n = 0
                 THEN Panic([p EXCEPT !.isTag = FALSE])
                 ELSE [p EXCEPT !.i = i + n, !.tok = SubSeq(p.s, i + 1, i + n),
                                !.isTag = TRUE]

\* A parser step's result: the expression and the parser after it; a
\* SyntaxError panic leaves p.err set and unwinds every caller.
Res(x, p) == [x |-> x, p |-> p]
Fail(p) == [x |-> TagExpr(<<>>), p |-> Panic(p)]

\* x once the token after it has been lexed into p.
Lexed(x, p) == IF p.err THEN Fail(p) ELSE Res(x, p)

\* or(x, y) and and(x, y) of the package, for a right operand parsed as r.
OrWith(x, r) == IF r.p.err THEN r ELSE Res(OrExpr(x, r.x), r.p)
AndWith(x, r) == IF r.p.err THEN r ELSE Res(AndExpr(x, r.x), r.p)
NotOf(r) == IF r.p.err THEN r ELSE Res(NotExpr(r.x), r.p)

RECURSIVE or(_), orLoop(_), and(_), andLoop(_), not(_), notTok(_), notArg(_),
          atom(_), closeParen(_)

\* exprParser.or: x := p.and(); for p.tok == "||" { x = or(x, p.and()) }.
or(p) == orLoop(and(p))

orLoop(r) ==
    IF r.p.err \/ r.p.tok # <<"|","|">> THEN r ELSE orLoop(OrWith(r.x, and(r.p)))

\* exprParser.and: x := p.not(); for p.tok == "&&" { x = and(x, p.not()) }.
and(p) == andLoop(not(p))

andLoop(r) ==
    IF r.p.err \/ r.p.tok # <<"&","&">> THEN r ELSE andLoop(AndWith(r.x, not(r.p)))

\* exprParser.not: p.lex(); after a "!", p.lex() again, where a second "!"
\* is the syntax error "double negation not allowed"; then p.atom().
not(p) == notTok(lex(p))

notTok(p) ==
    IF p.err THEN Fail(p)
    ELSE IF p.tok = <<"!">> THEN notArg(lex(p))
    ELSE atom(p)

notArg(p) == IF p.err \/ p.tok = <<"!">> THEN Fail(p) ELSE NotOf(atom(p))

\* exprParser.atom: a parenthesized expression, closed by ")", or a tag;
\* any other token is a syntax error.
atom(p) ==
    IF p.tok = <<"(">> THEN closeParen(or(p))
    ELSE IF ~p.isTag THEN Fail(p)
    ELSE Lexed(TagExpr(p.tok), lex(p))

closeParen(r) ==
    IF r.p.err THEN r
    ELSE IF r.p.tok # <<")">> THEN Fail(r.p)
    ELSE Lexed(r.x, lex(r.p))

\* The end of parseExpr: a panic in flight or a token left over is an error.
parsed(r) ==
    IF r.p.err \/ r.p.tok # <<>> THEN [err |-> TRUE, x |-> TagExpr(<<>>)]
    ELSE [err |-> FALSE, x |-> r.x]

\* constraint.parseExpr(text): the expression of a //go:build line, or a
\* syntax error.
parseExpr(text) == parsed(or(NewParser(text)))

\* One literal of a // +build clause.
plusBuildLit(lit) ==
    LET neg  == HasPrefix(lit, <<"!">>)
        word == IF neg THEN SliceFrom(lit, 1) ELSE lit
        z    == IF isValidTag(word) THEN TagExpr(word) ELSE TagExpr(<<"i","g","n","o","r","e">>)
    IN  IF HasPrefix(lit, <<"!","!">>) \/ lit = <<"!">> THEN TagExpr(<<"i","g","n","o","r","e">>)
        ELSE IF neg THEN NotExpr(z) ELSE z

\* The conjunction of the literals of one clause, left to right.
RECURSIVE plusBuildClause(_)
plusBuildClause(lits) ==
    LET n == Len(lits)
    IN  IF n = 1 THEN plusBuildLit(lits[1])
        ELSE AndExpr(plusBuildClause(SubSeq(lits, 1, n - 1)), plusBuildLit(lits[n]))

\* The disjunction of the clauses, left to right.
RECURSIVE plusBuildClauses(_)
plusBuildClauses(clauses) ==
    LET n == Len(clauses)
        y == plusBuildClause(Split(clauses[n], ","))
    IN  IF n = 1 THEN y
        ELSE OrExpr(plusBuildClauses(SubSeq(clauses, 1, n - 1)), y)

\* constraint.parsePlusBuildExpr(text): the expression of a // +build line.
parsePlusBuildExpr(text) ==
    IF Fields(text) = <<>> THEN TagExpr(<<"i","g","n","o","r","e">>)
    ELSE plusBuildClauses(Fields(text))

\* constraint.Parse(line).
ParseSplit(goBuild, plusBuild) ==
    IF goBuild.ok THEN parseExpr(goBuild.expr)
    ELSE IF plusBuild.ok
    THEN [err |-> FALSE, x |-> parsePlusBuildExpr(plusBuild.expr)]
    ELSE [err |-> TRUE, x |-> TagExpr(<<>>)]

Parse(line) == ParseSplit(splitGoBuild(line), splitPlusBuild(line))

(***************************************************************************)
(* parsetags, addtags, isBuildLine                                         *)
(***************************************************************************)

isBuildLine(line) == IsGoBuild(line) \/ IsPlusBuild(line)

\* addtags(tags, expr): the tag set after the walk of expr.  The type switch
\* has cases for NotExpr, OrExpr and TagExpr; any other node is left alone.
RECURSIVE addtags(_, _)
addtags(tags, expr) ==
    CASE expr.kind = "Not" -> addtags(tags, expr.x)
      [] expr.kind = "Or"  -> addtags(addtags(tags, expr.x), expr.y)
      [] expr.kind = "Tag" -> tags \cup { expr.tag }
      [] OTHER             -> tags

\* bufio.Scanner with ScanLines over the header: the lines without their
\* newline; a final line with no newline counts, an empty rest does not.
RECURSIVE ScanLines(_)
ScanLines(header) ==
    LET i == Index(header, "\n")
    IN  IF header = <<>> THEN <<>>
        ELSE IF i < 0 THEN << header >>
        ELSE << SliceTo(header, i) >> \o ScanLines(SliceFrom(header, i + 1))

\* The loop of parsetags over the lines still to scan: a line that is no
\* build line is skipped, a line Parse rejects ends the scan with its error,
\* and the tags of any other line are added.
RECURSIVE scanLoop(_, _), scanLine(_, _, _)
scanLoop(tags, lines) ==
    IF lines = <<>> THEN [tags |-> tags, err |-> FALSE]
    ELSE IF ~isBuildLine(Head(lines)) THEN scanLoop(tags, Tail(lines))
    ELSE scanLine(tags, Parse(Head(lines)), Tail(lines))

\* scanLine with a rejected line skipped instead of returned as an error.
scanLineSkipRejected(tags, parse, rest) ==
    IF parse.err THEN scanLoop(tags, rest)
    ELSE scanLoop(addtags(tags, parse.x), rest)

scanLine(tags, parse, rest) ==
    IF parse.err THEN [tags |-> tags, err |-> TRUE]
    ELSE scanLoop(addtags(tags, parse.x), rest)

\* parsetags(tags, header): the tag set after the scan, and whether the scan
\* ended with an error.
parsetags(tags, header) == scanLoop(tags, ScanLines(header))

(***************************************************************************)
(* tagset, the categories and readdir                                      *)
(***************************************************************************)

\* add with the set replaced instead of extended.
addReplace(set, tag) == { tag }

\* tagset.add(tag): set[tag] = struct{}{}.
add(set, tag) == set \cup { tag }

\* The orders in which "for tag := range set" may visit a tag set.
Enumerations(set) ==
    { f \in [1..Cardinality(set) -> set] :
        \A i, j \in 1..Cardinality(set) : i # j => f[i] # f[j] }

\* Insertion of x into an ascending list.
RECURSIVE Insert(_, _)
Insert(x, list) ==
    IF list = <<>> THEN << x >>
    ELSE IF StrLess(Head(list), x) THEN << Head(list) >> \o Insert(x, Tail(list))
    ELSE << x >> \o list

\* sort.Strings(list): list in increasing order.
RECURSIVE SortStrings(_)
SortStrings(list) ==
    IF list = <<>> THEN <<>> ELSE Insert(Head(list), SortStrings(Tail(list)))

\* sorted without the call of sort.Strings.
sortedNoSort(list) == list

\* tagset.sorted() when the map is ranged over in the order list.
sorted(list) == SortStrings(list)

\* The switch without the case for the special tags.
categoryNoSpecial(tag) ==
    CASE tag \in knownOS         -> "GOOS"
      [] tag \in knownArch       -> "GOARCH"
      [] tag \in knownReleaseTag -> "release-tag"
      [] OTHER                   -> "build-tag"

\* The switch of run's categorize loop: the bucket a tag is added to.
category(tag) ==
    CASE tag \in knownOS         -> "GOOS"
      [] tag \in knownArch       -> "GOARCH"
      [] tag \in knownReleaseTag -> "release-tag"
      [] tag \in knownSpecialTag -> "special-tag"
      [] OTHER                   -> "build-tag"

\* The labels of the five printed lines, in the order run prints them.
Labels == << "GOOS", "GOARCH", "release-tag", "special-tag", "build-tag" >>

\* filepath.Ext(name) for a name without a path separator.
Ext(name) ==
    IF LastIndex(name, ".") < 0 THEN <<>> ELSE SliceFrom(name, LastIndex(name, "."))

\* readdir's loop over the entries os.ReadDir returned: the names of the
\* regular files with the extension .go, in the order listed.
RECURSIVE readdir(_)
readdir(files) ==
    IF files = <<>> THEN <<>>
    ELSE IF Head(files).regular /\ Ext(Head(files).name) = <<".","g","o">>
         THEN << Head(files).name >> \o readdir(Tail(files))
         ELSE readdir(Tail(files))

(***************************************************************************)
(* Bounds and inputs                                                       *)
(***************************************************************************)

\* The most directories golist returns, and the most entries of a directory.
MaxDirs == 2
MaxFiles == 2

\* The directory entries a listing is drawn from.
DirEntries ==
    { [name |-> <<"f","o","o",".","g","o">>, regular |-> TRUE],
      [name |-> <<"f","o","o","_","l","i","n","u","x",".","g","o">>, regular |-> TRUE],
      [name |-> <<"f","o","o","_","l","i","n","u","x","_","a","m","d","6","4",".","g","o">>, regular |-> TRUE],
      [name |-> <<"a","s","m","_","a","r","m",".","s">>, regular |-> TRUE],
      [name |-> <<"s","u","b","_","d","a","r","w","i","n",".","g","o">>, regular |-> FALSE] }

\* os.ReadDir returns the entries of a directory sorted by file name.
DirListings ==
    { l \in UNION { [1..n -> DirEntries] : n \in 0..MaxFiles } :
        \A i \in 1..(Len(l) - 1) : StrLess(l[i].name, l[i+1].name) }

\* The headers a file of a run may have.
RunHeaders ==
    { <<>>,
      <<"/","/"," ","d","o","c","\n","/","/","g","o",":","b","u","i","l","d"," ","l","i","n","u","x"," ","|","|"," ","!","m","y","t","a","g","\n","/","/"," ","+","b","u","i","l","d"," ","d","a","r","w","i","n","\n">>,
      <<"/","/","g","o",":","b","u","i","l","d"," ","d","a","r","w","i","n"," ","&","&"," ","c","g","o"," ","|","|"," ","z","z","\n">>,
      <<"/","/","g","o",":","b","u","i","l","d"," ","g","o","1",".","1","6"," ","|","|"," ","c","g","o","\n","\n">>,
      <<"/","/"," ","+","b","u","i","l","d"," ","z","z",",","c","g","o"," ","a","m","d","6","4","\n">>,
      <<"/","/","g","o",":","b","u","i","l","d"," ","z","z","\n","/","/","g","o",":","b","u","i","l","d"," ","l","i","n","u","x"," ","&","&","\n">> }

(***************************************************************************)
(* The state                                                               *)
(***************************************************************************)

VARIABLES
    pc,         \* where main is: "golist", "dir", "file", "categorize",
                \* "print", "exit"
    dirs,       \* the number of directories still to range over
    gofiles,    \* the file names of the current directory still to parse
    tags,       \* run's tags
    cur,        \* the file parse was last called for: its name and header
    todo,       \* the tags the categorize loop has not visited yet
    buckets,    \* goos, goarch, release, special, build, by label
    out,        \* the lines printed on standard output
    status,     \* the exit status, -1 while the process runs
    specified,  \* history: how many times each tag has been specified
    input,      \* the argument of a function under test
    result      \* its result

runVars == << pc, dirs, gofiles, tags, cur, todo, buckets, out, status, specified >>
fnVars == << input, result >>
vars == << pc, dirs, gofiles, tags, cur, todo, buckets, out, status, specified,
           input, result >>

\* No file parsed yet; no function result yet.
NoFile == [name |-> <<>>, header |-> <<>>, read |-> FALSE]
Pending == [done |-> FALSE]

EmptyBuckets == [l \in { Labels[k] : k \in DOMAIN Labels } |-> {}]

InitRun ==
    /\ pc = "golist"
    /\ dirs = 0
    /\ gofiles = <<>>
    /\ tags = {}
    /\ cur = NoFile
    /\ todo = {}
    /\ buckets = EmptyBuckets
    /\ out = <<>>
    /\ status = -1
    /\ specified = << >>

Init ==
    /\ InitRun
    /\ input = <<>>
    /\ result = Pending

(***************************************************************************)
(* main and run                                                            *)
(***************************************************************************)

\* The atoms of an expression with their multiplicity, as a sequence.
RECURSIVE AtomList(_)
AtomList(expr) ==
    CASE expr.kind = "Tag" -> << expr.tag >>
      [] expr.kind = "Not" -> AtomList(expr.x)
      [] OTHER             -> AtomList(expr.x) \o AtomList(expr.y)

\* The tags the qualifying lines parsetags gets to parse specify.
RECURSIVE SpecifiedInLines(_), SpecifiedInLine(_, _)
SpecifiedInLines(lines) ==
    IF lines = <<>> THEN <<>>
    ELSE IF ~isBuildLine(Head(lines)) THEN SpecifiedInLines(Tail(lines))
    ELSE SpecifiedInLine(Parse(Head(lines)), Tail(lines))

SpecifiedInLine(parse, rest) ==
    IF parse.err THEN <<>> ELSE AtomList(parse.x) \o SpecifiedInLines(rest)

\* The tags a file name specifies.
SpecifiedInName(name) == SelectSeq(parsename(name), LAMBDA t : t # <<>>)

\* The history after the tags of list have been specified once more each.
RECURSIVE Count(_, _)
Count(bag, list) ==
    IF list = <<>> THEN bag
    ELSE LET t == Head(list)
             n == IF t \in DOMAIN bag THEN bag[t] ELSE 0
         IN  Count([u \in DOMAIN bag \cup { t } |-> IF u = t THEN n + 1 ELSE bag[u]],
                   Tail(list))

\* main: golist returns the package directories.
Golist ==
    /\ pc = "golist"
    /\ \E n \in 0..MaxDirs : dirs' = n
    /\ pc' = "dir"
    /\ UNCHANGED << gofiles, tags, cur, todo, buckets, out, status >>

\* main: golist fails and log.Fatal ends the process.
GolistFail ==
    /\ pc = "golist"
    /\ pc' = "exit"
    /\ status' = 1
    /\ UNCHANGED << dirs, gofiles, tags, cur, todo, buckets, out >>

\* run: the next directory is read.
Readdir ==
    /\ pc = "dir"
    /\ dirs > 0
    /\ \E files \in DirListings :
          /\ gofiles' = readdir(files)
          /\ pc' = IF readdir(files) = <<>> THEN "dir" ELSE "file"
    /\ dirs' = dirs - 1
    /\ UNCHANGED << tags, cur, todo, buckets, out, status >>

\* run: os.ReadDir fails; run returns the error and log.Fatal ends the process.
ReaddirFail ==
    /\ pc = "dir"
    /\ dirs > 0
    /\ pc' = "exit"
    /\ status' = 1
    /\ UNCHANGED << dirs, gofiles, tags, cur, todo, buckets, out >>

\* parse's first part: the tags of the file name are added.
nametags(set, name) ==
    LET autotags == parsename(name)
        t1 == IF autotags[1] # <<>> THEN add(set, autotags[1]) ELSE set
    IN  IF autotags[2] # <<>> THEN add(t1, autotags[2]) ELSE t1

\* run: parse(tags, dir, name) for the next file, whose header is header.
ParseFile ==
    /\ pc = "file"
    /\ \E header \in RunHeaders :
          LET name == Head(gofiles)
              r    == parsetags(nametags(tags, name), header)
          IN  /\ tags' = r.tags
              /\ cur' = [name |-> name, header |-> header, read |-> TRUE]
              /\ IF r.err
                 THEN /\ pc' = "exit"
                      /\ status' = 1
                      /\ UNCHANGED gofiles
                 ELSE /\ pc' = IF Tail(gofiles) = <<>> THEN "dir" ELSE "file"
                      /\ gofiles' = Tail(gofiles)
                      /\ UNCHANGED status
    /\ UNCHANGED << dirs, todo, buckets, out >>

\* run: parseheader fails for the next file, after the tags of its name have
\* been added; run returns the error and log.Fatal ends the process.
ParseHeaderFail ==
    /\ pc = "file"
    /\ tags' = nametags(tags, Head(gofiles))
    /\ cur' = [name |-> Head(gofiles), header |-> <<>>, read |-> FALSE]
    /\ pc' = "exit"
    /\ status' = 1
    /\ UNCHANGED << dirs, gofiles, todo, buckets, out >>

\* run: every directory is done; the five empty tag sets are made.
BeginCategorize ==
    /\ pc = "dir"
    /\ dirs = 0
    /\ todo' = tags
    /\ buckets' = EmptyBuckets
    /\ pc' = IF tags = {} THEN "print" ELSE "categorize"
    /\ UNCHANGED << dirs, gofiles, tags, cur, out, status >>

\* run: one iteration of "for tag := range tags".
Categorize ==
    /\ pc = "categorize"
    /\ \E tag \in todo :
          /\ buckets' = [buckets EXCEPT ![category(tag)] = add(@, tag)]
          /\ todo' = todo \ { tag }
          /\ pc' = IF todo = { tag } THEN "print" ELSE "categorize"
    /\ UNCHANGED << dirs, gofiles, tags, cur, out, status >>

\* run: the next of the five lines is printed; after the last one run
\* returns nil and main ends with status 0.
Println ==
    /\ pc = "print"
    /\ LET label == Labels[Len(out) + 1]
       IN  \E list \in Enumerations(buckets[label]) :
              out' = Append(out, [label |-> label, list |-> sorted(list)])
    /\ IF Len(out) + 1 = Len(Labels)
       THEN pc' = "exit" /\ status' = 0
       ELSE UNCHANGED << pc, status >>
    /\ UNCHANGED << dirs, gofiles, tags, cur, todo, buckets >>

\* The history of the file parse has just been called for: the tags its
\* name specifies and the tags the lines parsetags parsed specify.
CountFile ==
    specified' = Count(specified,
                       SpecifiedInName(cur'.name)
                           \o SpecifiedInLines(ScanLines(cur'.header)))

Next ==
    \/ (Golist /\ UNCHANGED << input, result, specified >>)
    \/ (GolistFail /\ UNCHANGED << input, result, specified >>)
    \/ (Readdir /\ UNCHANGED << input, result, specified >>)
    \/ (ReaddirFail /\ UNCHANGED << input, result, specified >>)
    \/ (ParseFile /\ UNCHANGED << input, result, specified >>)
    \/ (ParseHeaderFail /\ UNCHANGED << input, result, specified >>)
    \/ (BeginCategorize /\ UNCHANGED << input, result, specified >>)
    \/ (Categorize /\ UNCHANGED << input, result, specified >>)
    \/ (Println /\ UNCHANGED << input, result, specified >>)

\* A run of main.
Spec == Init /\ [][Next]_vars

NextCount ==
    \/ (Golist /\ UNCHANGED << input, result, specified >>)
    \/ (GolistFail /\ UNCHANGED << input, result, specified >>)
    \/ (Readdir /\ UNCHANGED << input, result, specified >>)
    \/ (ReaddirFail /\ UNCHANGED << input, result, specified >>)
    \/ (ParseFile /\ CountFile /\ UNCHANGED << input, result >>)
    \/ (ParseHeaderFail /\ CountFile /\ UNCHANGED << input, result >>)
    \/ (BeginCategorize /\ UNCHANGED << input, result, specified >>)
    \/ (Categorize /\ UNCHANGED << input, result, specified >>)
    \/ (Println /\ UNCHANGED << input, result, specified >>)

\* A run of main with the history of how often each tag has been specified.
SpecCount == Init /\ [][NextCount]_vars

(***************************************************************************)
(* The functions on their own                                              *)
(***************************************************************************)

Done(v) == [done |-> TRUE, val |-> v]

\* File names: a prefix, up to MaxComps components each after an
\* underscore, and an extension.
MaxComps == 3
NamePrefixes == { <<"f","o","o">>, <<>>, <<"l","i","n","u","x">>, <<"a",".","b">> }
NameComps == { <<"l","i","n","u","x">>, <<"a","m","d","6","4">>, <<"t","e","s","t">>, <<"f","o","o">>, <<>>, <<"a","r","m">> }
NameExts == { <<".","g","o">>, <<>> }

RECURSIVE Underscored(_)
Underscored(comps) ==
    IF comps = <<>> THEN <<>> ELSE <<"_">> \o Head(comps) \o Underscored(Tail(comps))

NameInputs ==
    { prefix \o Underscored(comps) \o ext :
        prefix \in NamePrefixes,
        comps \in UNION { [1..n -> NameComps] : n \in 0..MaxComps },
        ext \in NameExts }

InitName ==
    /\ InitRun
    /\ input \in NameInputs
    /\ result = Pending

\* parsename is applied to the name.
ApplyParsename ==
    /\ ~result.done
    /\ result' = Done(parsename(input))
    /\ UNCHANGED << runVars, input >>

NextName == ApplyParsename

SpecName == InitName /\ [][NextName]_vars

\* Directive lines: each form below over the first MaxLineTags of LineTags.
MaxLineTags == 3
LineTags == << <<"l","i","n","u","x">>, <<"d","a","r","w","i","n">>, <<"c","g","o">>, <<"m","y","t","a","g">>, <<"g","o","1",".","1","6">> >>
LineTagSet == { LineTags[k] : k \in 1..MaxLineTags }

DirectiveLines ==
    { <<"/","/","g","o",":","b","u","i","l","d"," ">> \o a : a \in LineTagSet }
    \cup { <<"/","/","g","o",":","b","u","i","l","d"," ","!">> \o a : a \in LineTagSet }
    \cup { <<"/","/","g","o",":","b","u","i","l","d"," ">> \o a \o <<" ","|","|"," ">> \o b : a, b \in LineTagSet }
    \cup { <<"/","/","g","o",":","b","u","i","l","d"," ">> \o a \o <<" ","&","&"," ">> \o b : a, b \in LineTagSet }
    \cup { <<"/","/","g","o",":","b","u","i","l","d"," ","(">> \o a \o <<" ","|","|"," ">> \o b \o <<")"," ","&","&"," ","!">> \o c :
             a, b, c \in LineTagSet }
    \cup { <<"/","/","g","o",":","b","u","i","l","d"," ","!","(">> \o a \o <<" ","&","&"," ">> \o b \o <<")"," ","|","|"," ">> \o c :
             a, b, c \in LineTagSet }
    \cup { <<"/","/"," ","+","b","u","i","l","d"," ">> \o a : a \in LineTagSet }
    \cup { <<"/","/"," ","+","b","u","i","l","d"," ">> \o a \o <<" ">> \o b : a, b \in LineTagSet }
    \cup { <<"/","/","+","b","u","i","l","d"," ">> \o a \o <<",">> \o b : a, b \in LineTagSet }
    \cup { <<"/","/"," ","+","b","u","i","l","d"," ">> \o a \o <<",","!">> \o b \o <<" ">> \o c :
             a, b, c \in LineTagSet }

\* The tag sets a walk may start from.
PriorTags == { {}, { <<"m","y","t","a","g">> } }

InitLine ==
    /\ InitRun
    /\ input \in [tags : PriorTags, line : DirectiveLines]
    /\ result = Pending

\* The body of parsetags' loop for one qualifying line: the line is parsed
\* and addtags walks its expression.
ApplyAddtags ==
    /\ ~result.done
    /\ isBuildLine(input.line)
    /\ ~Parse(input.line).err
    /\ result' = Done(addtags(input.tags, Parse(input.line).x))
    /\ UNCHANGED << runVars, input >>

NextLine == ApplyAddtags

SpecLine == InitLine /\ [][NextLine]_vars

\* Headers: up to MaxLines of HeaderLines, each ended by a newline.
MaxLines == 2
HeaderLines ==
    { <<"/","/","g","o",":","b","u","i","l","d"," ","(","l","i","n","u","x"," ","|","|"," ","d","a","r","w","i","n",")"," ","&","&"," ","!","c","g","o">>,
      <<"/","/"," ","+","b","u","i","l","d"," ","l","i","n","u","x",",","!","c","g","o"," ","d","a","r","w","i","n">>,
      <<"/","/","g","o",":","b","u","i","l","d"," ","!","m","y","t","a","g"," ","|","|"," ","g","o","1",".","1","6">>,
      <<"/","/","g","o",":","b","u","i","l","d"," ","l","i","n","u","x"," ","&","&">>,
      <<"/","/"," ","P","a","c","k","a","g","e"," ","f","o","o",".">>,
      <<>>,
      <<"/","/","g","o",":","b","u","i","l","d","x"," ","z","z">>,
      <<"/","/"," ","+","b","u","i","l","d"," ","!","!","z","z">> }

RECURSIVE JoinLines(_)
JoinLines(lines) ==
    IF lines = <<>> THEN <<>> ELSE Head(lines) \o <<"\n">> \o JoinLines(Tail(lines))

Headers ==
    { JoinLines(lines) : lines \in UNION { [1..n -> HeaderLines] : n \in 0..MaxLines } }

InitHeader ==
    /\ InitRun
    /\ input \in [tags : PriorTags, header : Headers]
    /\ result = Pending

\* parsetags is applied to the header.
ApplyParsetags ==
    /\ ~result.done
    /\ result' = Done(parsetags(input.tags, input.header))
    /\ UNCHANGED << runVars, input >>

NextHeader == ApplyParsetags

SpecHeader == InitHeader /\ [][NextHeader]_vars

\* Tags: go1.D for every digit string D of up to MaxDigits digits, and
\* a few other identifiers.
MaxDigits == 3
DigitSet == { Digits[k] : k \in DOMAIN Digits }
DigitStrings == UNION { [1..n -> DigitSet] : n \in 1..MaxDigits }

TagInputs ==
    { <<"g","o","1",".">> \o d : d \in DigitStrings }
    \cup { <<"g","o","1">>, <<"g","o","2">>, <<"g","o">>, <<"g","o","1",".">>, <<"g","o","1",".","x">>, <<"g","o","1",".","1",".","1">>, <<"g","o","2",".","1">>,
          <<"l","i","n","u","x">>, <<"a","m","d","6","4">>, <<"c","g","o">>, <<"g","c">>, <<"m","y","t","a","g">>, <<"i","g","n","o","r","e">> }

InitClassify ==
    /\ InitRun
    /\ input \in TagInputs
    /\ result = Pending

\* The switch of the categorize loop is applied to the tag.
ApplyCategory ==
    /\ ~result.done
    /\ result' = Done(category(input))
    /\ UNCHANGED << runVars, input >>

NextClassify == ApplyCategory

SpecClassify == InitClassify /\ [][NextClassify]_vars

(***************************************************************************)
(* Properties                                                              *)
(***************************************************************************)

\* Every atom of an expression, whatever node it sits under.
RECURSIVE Atoms(_)
Atoms(expr) ==
    CASE expr.kind = "Tag" -> { expr.tag }
      [] expr.kind = "Not" -> Atoms(expr.x)
      [] OTHER             -> Atoms(expr.x) \cup Atoms(expr.y)

\* C1 (as claimed): for every qualifying directive line, the tags addtags
\* adds to the tag set are exactly the atoms of the line's expression tree,
\* whether an atom sits under negation, disjunction or conjunction.
C1_AddtagsAddsEveryAtom ==
    result.done => result.val = input.tags \cup Atoms(Parse(input.line).x)

\* The part of a name before its first dot, and the positions of its
\* underscores.
Stem(name) ==
    IF \E k \in 1..Len(name) : name[k] = "."
    THEN SubSeq(name, 1, (CHOOSE k \in 1..Len(name) :
                             name[k] = "." /\ \A j \in 1..(k-1) : name[j] # ".") - 1)
    ELSE name
Underscores(s) == { k \in 1..Len(s) : s[k] = "_" }

\* The suffix components of a stem: for each underscore, the text between
\* it and the next underscore (or the end).
Components(s) ==
    LET U == Underscores(s)
        At(j) == CHOOSE u \in U : Cardinality({ v \in U : v <= u }) = j
        End(j) == IF j = Cardinality(U) THEN Len(s) ELSE At(j + 1) - 1
    IN  [j \in 1..Cardinality(U) |-> SubSeq(s, At(j) + 1, End(j))]

\* The components with a trailing "test" dropped.
TagComponents(name) ==
    LET l == Components(Stem(name))
    IN  IF Len(l) > 0 /\ l[Len(l)] = <<"t","e","s","t">> THEN SubSeq(l, 1, Len(l) - 1) ELSE l

\* The components end with an architecture followed by an OS.
WrongOrder(name) ==
    LET l == TagComponents(name)
        n == Len(l)
    IN  n >= 2 /\ l[n-1] \in knownArch /\ l[n] \in knownOS

\* C2 (as claimed): a file name whose components end with a known
\* architecture followed by a known OS makes parsename emit no tag at all.
C2_WrongOrderNoTags ==
    (result.done /\ WrongOrder(input)) => result.val = NoTags

\* C2 (amended): for such a name parsename emits exactly one tag, the
\* trailing OS; it emits neither the pair nor the architecture.
C2_WrongOrderOnlyOS ==
    (result.done /\ WrongOrder(input)) =>
        LET l == TagComponents(input)
        IN  /\ result.val = << l[Len(l)], <<>> >>
            /\ result.val[1] \in knownOS
            /\ result.val[1] # l[Len(l) - 1]

\* C2's case: parsename applied to foo_amd64_linux.go.
C2_Witness ==
    /\ result.done
    /\ WrongOrder(input)
    /\ input = <<"f","o","o","_","a","m","d","6","4","_","l","i","n","u","x",".","g","o">>
    /\ result.val = << <<"l","i","n","u","x">>, <<>> >>

\* The filename rule: the pair (architecture, OS) when the last two
\* components are a known OS then a known architecture, else the last
\* component alone when it is a known OS or architecture, else nothing.
FilenameRule(name) ==
    LET l == TagComponents(name)
        n == Len(l)
    IN  IF Underscores(Stem(name)) = {} THEN NoTags
        ELSE IF n >= 2 /\ l[n-1] \in knownOS /\ l[n] \in knownArch
             THEN << l[n], l[n-1] >>
        ELSE IF n >= 1 /\ l[n] \in knownOS \cup knownArch THEN << l[n], <<>> >>
        ELSE NoTags

\* C3: for every file name parsename returns what the filename rule gives;
\* so foo_linux_amd64.go gives (amd64, linux), foo_test.go and foo.go give
\* nothing, and foo_linux_test.go gives linux.
C3_ParsenameIsFilenameRule ==
    result.done =>
        /\ result.val = FilenameRule(input)
        /\ input = <<"f","o","o","_","l","i","n","u","x","_","a","m","d","6","4",".","g","o">> => result.val = << <<"a","m","d","6","4">>, <<"l","i","n","u","x">> >>
        /\ input \in { <<"f","o","o","_","t","e","s","t",".","g","o">>, <<"f","o","o",".","g","o">> } => result.val = NoTags
        /\ input = <<"f","o","o","_","l","i","n","u","x","_","t","e","s","t",".","g","o">> => result.val = << <<"l","i","n","u","x">>, <<>> >>

\* C3's case: parsename applied to a name with a tag and a trailing test.
C3_Witness ==
    /\ result.done
    /\ input = <<"f","o","o","_","l","i","n","u","x","_","t","e","s","t",".","g","o">>
    /\ result.val = << <<"l","i","n","u","x">>, <<>> >>

\* The header has a qualifying directive line that the parser rejects.
HasRejectedLine(header) ==
    \E k \in 1..Len(ScanLines(header)) :
        /\ IsGoBuild(ScanLines(header)[k]) \/ IsPlusBuild(ScanLines(header)[k])
        /\ Parse(ScanLines(header)[k]).err

\* parse has been called for a file whose header has such a line.
RejectedFile == cur.read /\ HasRejectedLine(cur.header)

\* C4: when a file's header has a qualifying line the parser rejects, run
\* ends with an error at that file: the file is still the next of its
\* directory, nothing has been printed, the process has ended with a
\* non-zero status, and no further step is taken (no later file or
\* directory is processed, no line is printed).
C4_RejectedLineAbortsRun ==
    /\ [](RejectedFile =>
            /\ pc = "exit"
            /\ status > 0
            /\ out = <<>>
            /\ gofiles # <<>>
            /\ Head(gofiles) = cur.name)
    /\ [][~RejectedFile]_vars

\* C4's case: a rejected line in the last file of the last directory, after
\* tags have been accumulated.
C4_Witness ==
    /\ RejectedFile
    /\ tags # {}
    /\ dirs = 0
    /\ pc = "exit"

\* The first of the five categories a tag matches: known OS, known
\* architecture, known release tag, known special tag, else general.
Matches(k, tag) ==
    \/ k = 1 /\ tag \in knownOS
    \/ k = 2 /\ tag \in knownArch
    \/ k = 3 /\ tag \in knownReleaseTag
    \/ k = 4 /\ tag \in knownSpecialTag
    \/ k = 5
FirstMatch(tag) ==
    CHOOSE k \in 1..5 : Matches(k, tag) /\ \A j \in 1..(k-1) : ~Matches(j, tag)

\* The categorize loop has ended without an error.
Categorized == pc = "print" \/ (pc = "exit" /\ status = 0)

\* C5: after an error-free run the five buckets partition the accumulated
\* tags: every accumulated tag is in exactly one bucket, the bucket of its
\* first match, and no bucket holds a tag that was not accumulated.
C5_BucketsPartitionTags ==
    Categorized =>
        /\ \A t \in tags : \A k \in 1..5 :
              t \in buckets[Labels[k]] <=> k = FirstMatch(t)
        /\ \A k \in 1..5 : buckets[Labels[k]] \subseteq tags

\* C5's case: a categorized run with a tag in each of the five buckets.
C5_Witness ==
    /\ Categorized
    /\ \A k \in 1..5 : buckets[Labels[k]] # {}

\* The value of a digit string, most significant digit first.
RECURSIVE Value(_)
Value(d) ==
    IF d = <<>> THEN 0
    ELSE 10 * Value(SubSeq(d, 1, Len(d) - 1))
         + (CHOOSE v \in 0..9 : Digits[v + 1] = d[Len(d)])

\* go1, or go1.N with N the canonical decimal form of an integer 1..255.
ReleaseForm(tag) ==
    \/ tag = <<"g","o","1">>
    \/ /\ Len(tag) > 4
       /\ SubSeq(tag, 1, 4) = <<"g","o","1",".">>
       /\ LET d == SubSeq(tag, 5, Len(tag))
          IN  /\ \A k \in 1..Len(d) : IsDigit(d[k])
              /\ d[1] # "0"
              /\ Value(d) >= 1
              /\ Value(d) <= 255

\* C6: a tag goes to the release-tag bucket exactly when it is go1 or
\* go1.N with N canonical and 1 <= N <= 255; go1.0, go1.256 and go2 go to
\* the general build-tag bucket.
C6_ReleaseTagsAreGo1ToGo1_255 ==
    result.done =>
        /\ result.val = "release-tag" <=> ReleaseForm(input)
        /\ input \in { <<"g","o","1",".","0">>, <<"g","o","1",".","2","5","6">>, <<"g","o","2">> } => result.val = "build-tag"

\* C6's case: the largest generated release tag has been categorized.
C6_Witness ==
    /\ result.done
    /\ input = <<"g","o","1",".","2","5","5">>
    /\ result.val = "release-tag"

\* A list in strictly increasing byte order.
Ascending(list) == \A i \in 1..(Len(list) - 1) : StrLess(list[i], list[i+1])

\* C7: the five printed lists are a function of the accumulated tags only:
\* line k is labelled with the k-th category and lists, in strictly
\* increasing order, exactly the accumulated tags of that category.
C7_OutputDeterminedByTags ==
    (pc = "exit" /\ status = 0) =>
        /\ Len(out) = 5
        /\ \A k \in 1..5 :
              /\ out[k].label = Labels[k]
              /\ Ascending(out[k].list)
              /\ { out[k].list[i] : i \in 1..Len(out[k].list) }
                    = { t \in tags : FirstMatch(t) = k }

\* C7's case: a finished run whose first and last lists hold two tags each.
C7_Witness ==
    /\ pc = "exit"
    /\ status = 0
    /\ Len(out) = 5
    /\ Len(out[1].list) = 2
    /\ Len(out[5].list) = 2

\* How many times the report shows a tag.
ReportCount(tag) ==
    Cardinality({ ki \in (1..Len(out)) \X (1..Cardinality(tags)) :
                    /\ ki[2] <= Len(out[ki[1]].list)
                    /\ out[ki[1]].list[ki[2]] = tag })

\* C8 (as claimed): the report carries, for each tag it lists, the number
\* of times the tag has been specified in a +build line, a go:build line or
\* a file name.
C8_ReportCarriesTagCounts ==
    (pc = "exit" /\ status = 0) =>
        \A t \in tags : ReportCount(t) = specified[t]

\* Every atom of every qualifying line of a header.
HeaderAtoms(header) ==
    UNION { Atoms(Parse(ScanLines(header)[k]).x) :
              k \in { j \in 1..Len(ScanLines(header)) :
                        IsGoBuild(ScanLines(header)[j])
                            \/ IsPlusBuild(ScanLines(header)[j]) } }

\* C9 (as claimed): for a header whose qualifying lines all parse, parsetags
\* raises no error and adds exactly the union, line by line, of the atoms
\* of the qualifying lines; the other lines add nothing.
C9_ParsetagsAddsAtomsOfEachLine ==
    (result.done /\ ~HasRejectedLine(input.header)) =>
        /\ ~result.val.err
        /\ result.val.tags = input.tags \cup HeaderAtoms(input.header)

\* C10: the accumulated tag set starts empty and only grows; it changes
\* only when parse is called for the next file of the current directory;
\* the next directory is read only when the current one has no file left;
\* categorizing and printing start only when no directory and no file is
\* left, and from then on the tag set does not change.
C10_TagsGrowThenFreeze ==
    /\ tags = {}
    /\ [][ /\ tags \subseteq tags'
           /\ tags' # tags => (pc = "file" /\ cur'.name = Head(gofiles))
           /\ cur' # cur => (pc = "file" /\ cur'.name = Head(gofiles))
           /\ gofiles' # gofiles =>
                 \/ pc = "file" /\ gofiles' = Tail(gofiles)
                 \/ pc = "dir" /\ gofiles = <<>> /\ dirs' = dirs - 1
           /\ (todo' # todo \/ buckets' # buckets \/ out' # out) =>
                 (dirs = 0 /\ gofiles = <<>> /\ tags' = tags)
           /\ pc \in { "categorize", "print", "exit" } => tags' = tags
         ]_vars

\* C10's case: a finished run that accumulated at least four tags.
C10_Witness ==
    /\ pc = "exit"
    /\ status = 0
    /\ Cardinality(tags) >= 4

=============================================================================
